---- MODULE Spec2Model ----
(***************************************************************************)
(* ProductImageFetcher (script.py): the name normalizer, the placeholder   *)
(* generator, the per-product resolution loop and the batch driver.        *)
(*                                                                         *)
(* A Python str is a sequence of one-character strings.  An Optional[str]  *)
(* is a record [kind, s]: kind "none" is None, kind "str" carries s.  A    *)
(* URL is kept as its text split in pieces (a sequence of strings whose    *)
(* concatenation is the URL).                                              *)
(***************************************************************************)
EXTENDS Integers, Sequences, FiniteSets, TLC

(* ------------------------------ bounds --------------------------------- *)
\* longest batch handed to fetch_all_images
MaxProducts == 2
\* most words in a name handed to the normalizer / generator on their own
MaxTokens == 3

(* ------------------------------ characters ----------------------------- *)
Upper == <<"A", "B", "C", "D", "E", "F", "G", "H", "I", "J", "K", "L", "M",
           "N", "O", "P", "Q", "R", "S", "T", "U", "V", "W", "X", "Y", "Z">>
LowerLetters == <<"a", "b", "c", "d", "e", "f", "g", "h", "i", "j", "k", "l", "m",
                  "n", "o", "p", "q", "r", "s", "t", "u", "v", "w", "x", "y", "z">>
Digits == {"0", "1", "2", "3", "4", "5", "6", "7", "8", "9"}

Range(f) == {f[x] : x \in DOMAIN f}

\* \s of the re module (ASCII part)
IsSpace(c) == c \in {" ", "\t", "\n", "\r", "\f"}
\* \d
IsDigit(c) == c \in Digits
\* \w
IsWord(c) == c \in Range(Upper) \cup Range(LowerLetters) \cup Digits \cup {"_"}

\* str.lower() on one character
LowerChar(c) ==
    IF c \in Range(Upper)
    THEN LowerLetters[CHOOSE n \in DOMAIN Upper : Upper[n] = c]
    ELSE c
\* str.lower()
Lower(s) == [n \in 1..Len(s) |-> LowerChar(s[n])]

\* s[:n]
Take(s, n) == SubSeq(s, 1, IF n < Len(s) THEN n ELSE Len(s))
\* s[n:]  (n counted from 0 as in Python)
Drop(s, n) == SubSeq(s, n + 1, Len(s))

\* sub in s
Contains(s, sub) ==
    \E n \in 1..(Len(s) - Len(sub) + 1) : SubSeq(s, n, n + Len(sub) - 1) = sub

\* s.lower().startswith(p), p lower case
StartsWithCI(s, p) == Len(s) >= Len(p) /\ Lower(Take(s, Len(p))) = p

\* number of leading characters of s satisfying the class
RECURSIVE LeadingSpaces(_)
LeadingSpaces(s) ==
    IF s # <<>> /\ IsSpace(Head(s)) THEN 1 + LeadingSpaces(Tail(s)) ELSE 0
RECURSIVE LeadingDigits(_)
LeadingDigits(s) ==
    IF s # <<>> /\ IsDigit(Head(s)) THEN 1 + LeadingDigits(Tail(s)) ELSE 0
RECURSIVE TrailingSpaces(_)
TrailingSpaces(s) ==
    IF s # <<>> /\ IsSpace(s[Len(s)])
    THEN 1 + TrailingSpaces(SubSeq(s, 1, Len(s) - 1))
    ELSE 0

\* str.strip()
strip(s) == SubSeq(s, LeadingSpaces(s) + 1, Len(s) - TrailingSpaces(s))

(* ------------------------------ clean_product_name --------------------- *)
\* the alternatives of the leading pattern after "Set Of \d+"
size_words == << <<"l", "a", "r", "g", "e">>,
                 <<"m", "e", "d", "i", "u", "m">>,
                 <<"s", "m", "a", "l", "l">> >>
\* the alternatives of the trailing pattern
descriptor_words == << <<"d", "e", "s", "i", "g", "n">>,
                       <<"s", "t", "y", "l", "e">>,
                       <<"h", "o", "l", "d", "e", "r">>,
                       <<"m", "e", "t", "a", "l">>,
                       <<"s", "i", "g", "n">> >>
set_of == <<"s", "e", "t", " ", "o", "f", " ">>

\* length of the match of  Set Of \d+  at the start of s, 0 when none
SetOfLen(s) ==
    IF StartsWithCI(s, set_of) /\ LeadingDigits(Drop(s, Len(set_of))) > 0
    THEN Len(set_of) + LeadingDigits(Drop(s, Len(set_of)))
    ELSE 0

\* length of the alternative matched at the start of s by
\*   ^(Set Of \d+|Large|Medium|Small)\s+   (IGNORECASE); 0 when the pattern
\* does not match.  The alternatives are tried in order and one is kept only
\* if whitespace follows it.
PrefixWordLen(s) ==
    LET follows(n) == n > 0 /\ LeadingSpaces(Drop(s, n)) > 0
        sizes == {n \in DOMAIN size_words :
                     StartsWithCI(s, size_words[n]) /\ follows(Len(size_words[n]))}
    IN  IF follows(SetOfLen(s)) THEN SetOfLen(s)
        ELSE IF sizes # {}
             THEN Len(size_words[CHOOSE n \in sizes : \A m \in sizes : n <= m])
             ELSE 0

\* re.sub(r'^(Set Of \d+|Large|Medium|Small)\s+', '', name, flags=re.IGNORECASE)
StripPrefix(s) ==
    IF PrefixWordLen(s) = 0 THEN s
    ELSE Drop(s, PrefixWordLen(s) + LeadingSpaces(Drop(s, PrefixWordLen(s))))

\* the positions where $ matches: the end, and before a final newline
DollarEnds(s) ==
    {Len(s)} \cup (IF s # <<>> /\ s[Len(s)] = "\n" THEN {Len(s) - 1} ELSE {})

\* the matches <<start, end>> of  \s+(Design|Style|Holder|Metal|Sign)$
\* (IGNORECASE) in s: a descriptor word ending where $ matches, preceded by
\* whitespace; the match starts where that run of whitespace starts.
SuffixMatches(s) ==
    {<<e - Len(descriptor_words[n])
          - TrailingSpaces(SubSeq(s, 1, e - Len(descriptor_words[n]))) + 1, e>> :
        <<n, e>> \in {p \in (DOMAIN descriptor_words) \X DollarEnds(s) :
            /\ p[2] - Len(descriptor_words[p[1]]) >= 1
            /\ Lower(SubSeq(s, p[2] - Len(descriptor_words[p[1]]) + 1, p[2]))
                  = descriptor_words[p[1]]
            /\ IsSpace(s[p[2] - Len(descriptor_words[p[1]])])}}

\* re.sub(r'\s+(Design|Style|Holder|Metal|Sign)$', '', cleaned, flags=re.IGNORECASE)
StripSuffix(s) ==
    IF SuffixMatches(s) = {} THEN s
    ELSE LET m == CHOOSE m \in SuffixMatches(s) :
                      \A o \in SuffixMatches(s) : m[1] <= o[1]
         IN  SubSeq(s, 1, m[1] - 1) \o SubSeq(s, m[2] + 1, Len(s))

\* clean_product_name without the final strip()
clean_product_name_no_strip(name) == StripSuffix(StripPrefix(name))

clean_product_name(name) == strip(StripSuffix(StripPrefix(name)))

(* ------------------------------ generate_smart_placeholder ------------- *)
\* text[:25]
text_limit == 25

\* re.sub(r'[^\w\s-]', '', product_name)
RECURSIVE Sanitize(_)
Sanitize(s) ==
    IF s = <<>> THEN <<>>
    ELSE IF IsWord(Head(s)) \/ IsSpace(Head(s)) \/ Head(s) = "-"
         THEN <<Head(s)>> \o Sanitize(Tail(s))
         ELSE Sanitize(Tail(s))

\* the class [\s_-]
IsSeparator(c) == IsSpace(c) \/ c = "_" \/ c = "-"

\* re.sub(r'[\s_-]+', '+', text)
RECURSIVE Collapse(_)
Collapse(s) ==
    IF s = <<>> THEN <<>>
    ELSE IF IsSeparator(Head(s))
         THEN IF Len(s) > 1 /\ IsSeparator(s[2])
              THEN Collapse(Tail(s))
              ELSE <<"+">> \o Collapse(Tail(s))
         ELSE <<Head(s)>> \o Collapse(Tail(s))

\* the characters quote_plus replaces by a %XX escape, with their escapes
PercentCode == [c \in {"+", "&", "'", "/", "\t", "\n"} |->
                  CASE c = "+" -> <<"%", "2", "B">>
                    [] c = "&" -> <<"%", "2", "6">>
                    [] c = "'" -> <<"%", "2", "7">>
                    [] c = "/" -> <<"%", "2", "F">>
                    [] c = "\t" -> <<"%", "0", "9">>
                    [] c = "\n" -> <<"%", "0", "A">>]

\* urllib.parse.quote_plus
RECURSIVE quote_plus(_)
quote_plus(s) ==
    IF s = <<>> THEN <<>>
    ELSE (IF Head(s) = " " THEN <<"+">>
          ELSE IF IsWord(Head(s)) \/ Head(s) \in {".", "-", "~"} THEN <<Head(s)>>
          ELSE PercentCode[Head(s)]) \o quote_plus(Tail(s))

\* the themes dict, in insertion (= iteration) order
themes == <<
    [category |-> <<"k", "i", "t", "c", "h", "e", "n">>, bg |-> "2C3E50", text |-> "ECF0F1"],
    [category |-> <<"s", "t", "o", "r", "a", "g", "e">>, bg |-> "3498DB", text |-> "FFFFFF"],
    [category |-> <<"c", "h", "r", "i", "s", "t", "m", "a", "s">>, bg |-> "C0392B", text |-> "FFFFFF"],
    [category |-> <<"t", "o", "y">>, bg |-> "F39C12", text |-> "FFFFFF"],
    [category |-> <<"b", "o", "t", "t", "l", "e">>, bg |-> "8E44AD", text |-> "FFFFFF"],
    [category |-> <<"h", "o", "m", "e">>, bg |-> "27AE60", text |-> "FFFFFF"],
    [category |-> <<"t", "e", "a">>, bg |-> "16A085", text |-> "FFFFFF"],
    [category |-> <<"m", "e", "t", "a", "l">>, bg |-> "7F8C8D", text |-> "FFFFFF"] >>

\* the keywords dict, indexed like themes
keywords == <<
    \* kitchen
    {<<"m", "u", "g">>, <<"t", "e", "a">>, <<"c", "o", "f", "f", "e", "e">>,
     <<"s", "u", "g", "a", "r">>, <<"d", "i", "s", "p", "e", "n", "s", "e", "r">>,
     <<"j", "a", "r">>, <<"c", "a", "k", "e">>, <<"t", "i", "n">>},
    \* storage
    {<<"s", "t", "o", "r", "a", "g", "e">>, <<"b", "o", "x">>, <<"c", "r", "a", "t", "e">>,
     <<"t", "i", "n">>, <<"h", "o", "l", "d", "e", "r">>,
     <<"c", "o", "n", "t", "a", "i", "n", "e", "r">>},
    \* christmas
    {<<"c", "h", "r", "i", "s", "t", "m", "a", "s">>, <<"s", "t", "a", "r">>,
     <<"s", "t", "o", "c", "k", "i", "n", "g">>, <<"x", "m", "a", "s">>},
    \* toy
    {<<"t", "o", "y">>, <<"d", "o", "l", "l", "y">>, <<"s", "p", "a", "c", "e", "b", "o", "y">>,
     <<"b", "u", "b", "b", "l", "e", "s">>, <<"c", "h", "i", "l", "d", "r", "e", "n">>},
    \* bottle
    {<<"b", "o", "t", "t", "l", "e">>, <<"w", "a", "t", "e", "r">>, <<"h", "o", "t">>},
    \* home
    {<<"d", "o", "o", "r">>, <<"w", "a", "l", "l">>, <<"c", "l", "o", "c", "k">>,
     <<"s", "i", "g", "n">>, <<"h", "a", "n", "g", "e", "r">>},
    \* tea
    {<<"t", "e", "a">>, <<"c", "o", "f", "f", "e", "e">>},
    \* metal
    {<<"m", "e", "t", "a", "l">>, <<"s", "i", "g", "n">>, <<"z", "i", "n", "c">>,
     <<"w", "i", "r", "e">>} >>

\* themes['home'], the default
default_theme == themes[CHOOSE n \in DOMAIN themes : themes[n].category = <<"h", "o", "m", "e">>]

\* category in product_lower or any(word in product_lower for word in keywords[category])
ThemeMatches(n, product_lower) ==
    \/ Contains(product_lower, themes[n].category)
    \/ \E word \in keywords[n] : Contains(product_lower, word)

\* select_theme without the break: the last matching category wins
select_theme_last_match(product_name) ==
    LET product_lower == Lower(product_name)
        hits == {n \in DOMAIN themes : ThemeMatches(n, product_lower)}
    IN  IF hits = {} THEN default_theme
        ELSE themes[CHOOSE n \in hits : \A m \in hits : n >= m]

\* the for loop over themes.items(): the first matching category, else the default
select_theme(product_name) ==
    LET product_lower == Lower(product_name)
        hits == {n \in DOMAIN themes : ThemeMatches(n, product_lower)}
    IN  IF hits = {} THEN default_theme
        ELSE themes[CHOOSE n \in hits : \A m \in hits : n <= m]

\* the display text of the placeholder
placeholder_text(product_name) == Take(Collapse(Sanitize(product_name)), text_limit)

generate_smart_placeholder(product_name) ==
    LET theme == select_theme(product_name)
    IN  <<"https://via.placeholder.com/400x300/", theme.bg, "/", theme.text, "?text=">>
            \o quote_plus(placeholder_text(product_name))

(* ------------------------------ values --------------------------------- *)
\* None and a str, the two shapes of an Optional[str]
None == [kind |-> "none", s |-> <<>>]
Str(s) == [kind |-> "str", s |-> s]
\* the truth value Python gives an Optional[str]: None and "" are false
Truthy(v) == v.kind = "str" /\ v.s # <<>>

\* str.replace(' ', '_')
ReplaceSpaces(s) == [n \in 1..Len(s) |-> IF s[n] = " " THEN "_" ELSE s[n]]

\* the search_methods list of fetch_product_image, in order
search_methods == <<
    <<"D", "u", "c", "k", "D", "u", "c", "k", "G", "o">>,
    <<"B", "i", "n", "g", " ", "I", "m", "a", "g", "e", "s">>,
    <<"S", "h", "o", "p", "p", "i", "n", "g", " ", "S", "i", "t", "e", "s">>,
    <<"D", "i", "r", "e", "c", "t", " ", "S", "e", "a", "r", "c", "h">> >>

\* method_name.lower().replace(' ', '_')
source_of(method_name) == ReplaceSpaces(Lower(method_name))

s_placeholder == <<"p", "l", "a", "c", "e", "h", "o", "l", "d", "e", "r">>
s_smart_placeholder == <<"s", "m", "a", "r", "t", "_", "p", "l", "a", "c", "e", "h", "o", "l", "d", "e", "r">>
s_error_placeholder == <<"e", "r", "r", "o", "r", "_", "p", "l", "a", "c", "e", "h", "o", "l", "d", "e", "r">>

\* ProductImage(name, image_url, source, alt_text)
ProductImage(name, image_url, source, alt_text) ==
    [name |-> name, image_url |-> image_url, source |-> source, alt_text |-> alt_text]

\* The URL a search method hands back when it finds one: some URL of the
\* method's site for the query it was given (the sites' answers are not part
\* of the program; one URL per method and query stands for them).
Candidate(n, query) ==
    <<"https://img.example/">> \o source_of(search_methods[n]) \o <<"/">>
        \o quote_plus(query) \o <<".jpg">>

\* What one call  method(cleaned_name)  followed by validate_image_url can do:
\*   none      the method returns None
\*   empty     the method returns "" (an empty 'image' / 'murl' / 'src' value)
\*   rejected  the method returns a URL and validate_image_url returns False
\*   accepted  the method returns a URL and validate_image_url returns True
\*   raised    the call raises an Exception
Outcomes == {"none", "empty", "rejected", "accepted", "raised"}

\* product names of the program's list (main), the second padded with blanks
sample_products == {
    <<"P", "o", "p", "c", "o", "r", "n", " ", "H", "o", "l", "d", "e", "r">>,
    <<" ", "T", "o", "i", "l", "e", "t", " ", "M", "e", "t", "a", "l", " ", "S", "i", "g", "n", " ">> }

\* the words names are built from when the normalizer and the generator are
\* exercised on their own
vocabulary == <<
    <<"L", "a", "r", "g", "e">>,
    <<"S", "e", "t", " ", "O", "f", " ", "3">>,
    <<"S", "t", "o", "r", "a", "g", "e">>,
    <<"T", "i", "n">>,
    <<"L", "e", "a", "f">>,
    <<"S", "i", "g", "n">>,
    <<"H", "o", "l", "d", "e", "r">> >>

\* ' '.join(vocabulary[n] for n in ns)
RECURSIVE JoinWords(_)
JoinWords(ns) ==
    IF ns = <<>> THEN <<>>
    ELSE IF Len(ns) = 1 THEN vocabulary[Head(ns)]
    ELSE vocabulary[Head(ns)] \o <<" ">> \o JoinWords(Tail(ns))

\* sequences over S of length 1..n
SeqsUpTo(S, n) == UNION {[1..l -> S] : l \in 1..n}

Blanks(n) == [x \in 1..n |-> " "]

\* the names of at most MaxTokens words, with or without a blank before and after
name_inputs ==
    {Blanks(l) \o JoinWords(ns) \o Blanks(r) :
        <<ns, l, r>> \in SeqsUpTo(DOMAIN vocabulary, MaxTokens) \X (0..1) \X (0..1)}

(* ------------------------------ state ---------------------------------- *)
VARIABLES
    product_names,  \* fetch_all_images: its argument
    results,        \* fetch_all_images: the list it builds
    i,              \* fetch_all_images: the enumerate index of the current product
    pc,             \* where control is
    product_name,   \* fetch_product_image: its argument
    cleaned_name,   \* fetch_product_image: cleaned_name
    image_url,      \* fetch_product_image: image_url
    source,         \* fetch_product_image: source
    method,         \* fetch_product_image: index of the next search method
    invoked,        \* history: the search methods called for the current product
    seen,           \* history: the outcomes of those calls
    accepted,       \* history: the method whose URL was validated, 0 if none
    generated,      \* history: generate_smart_placeholder calls for the current product
    queried,        \* history: the names those search methods were called with
    slept           \* history: the delay step has run since the last resolution ended

vars == <<product_names, results, i, pc, product_name, cleaned_name, image_url,
          source, method, invoked, seen, accepted, generated, queried, slept>>

locals == <<product_name, cleaned_name, image_url, source, method>>
history == <<invoked, seen, accepted, generated, queried>>

total == Len(product_names)

\* the locals of fetch_product_image exist while it runs; they are blank
\* before it is entered and after it has returned
NoLocals(p, c, u, s, m) == p = <<>> /\ c = <<>> /\ u = None /\ s = <<>> /\ m = 0
\* the history is kept per product
NoHistory(v, o, a, g) == v = <<>> /\ o = {} /\ a = 0 /\ g = 0

NoCall ==
    /\ NoLocals(product_name, cleaned_name, image_url, source, method)
    /\ NoHistory(invoked, seen, accepted, generated)
    /\ queried = <<>>

\* the same, of the next state
EndCall ==
    /\ NoLocals(product_name', cleaned_name', image_url', source', method')
    /\ NoHistory(invoked', seen', accepted', generated')
    /\ queried' = <<>>

(* ------------------------------ fetch_all_images ----------------------- *)
Init ==
    /\ product_names \in {<<>>} \cup SeqsUpTo(sample_products, MaxProducts)
    /\ results = <<>>
    /\ i = 1
    /\ pc = "loop"
    /\ NoCall
    /\ slept = FALSE

\* for i, product_name in enumerate(product_names, 1):
\*     product_image = self.fetch_product_image(product_name.strip())
\* up to the for loop of fetch_product_image
enter_fetch_product_image ==
    /\ pc = "loop"
    /\ i <= total
    /\ product_name' = strip(product_names[i])
    /\ cleaned_name' = clean_product_name(strip(product_names[i]))
    /\ image_url' = None
    /\ source' = s_placeholder
    /\ method' = 1
    /\ invoked' = <<>>
    /\ queried' = <<>>
    /\ seen' = {}
    /\ accepted' = 0
    /\ generated' = 0
    /\ pc' = "search"
    /\ slept' = FALSE
    /\ UNCHANGED <<product_names, results, i>>

\* the locals of fetch_product_image after one pass of its for loop that
\* calls search_methods[method] with the outcome o
image_url_after(o) ==
    CASE o = "raised" -> image_url
      [] o = "none" -> None
      [] o = "empty" -> Str(<<>>)
      [] OTHER -> Str(Candidate(method, cleaned_name))

source_after(o) ==
    IF o = "accepted" THEN source_of(search_methods[method]) ELSE source

\* pc_after without the break: the loop runs on after a validated URL
pc_after_no_break(o) ==
    IF method = Len(search_methods) THEN "found_or_not" ELSE "search"

\* pc_after with a handler that leaves the loop instead of continuing
pc_after_raise_breaks(o) ==
    IF o \in {"accepted", "raised"} \/ method = Len(search_methods)
    THEN "found_or_not" ELSE "search"

\* break on a validated URL; otherwise go on to the next method, and leave
\* the loop after the last one
pc_after(o) ==
    IF o = "accepted" \/ method = Len(search_methods) THEN "found_or_not" ELSE "search"

\* one pass of  for method_name, method in search_methods:
try_method(o) ==
    /\ pc = "search"
    /\ image_url' = image_url_after(o)
    /\ source' = source_after(o)
    /\ pc' = pc_after(o)
    /\ method' = IF pc_after(o) = "search" THEN method + 1 ELSE method
    /\ invoked' = Append(invoked, method)
    /\ queried' = Append(queried, cleaned_name)
    /\ seen' = seen \cup {o}
    /\ accepted' = IF o = "accepted" /\ accepted = 0 THEN method ELSE accepted
    /\ UNCHANGED <<product_names, results, i, product_name, cleaned_name, generated, slept>>

\* use_placeholder as  if image_url is None:
use_placeholder_is_none(url) == url = None

\* if not image_url:
use_placeholder(url) == ~Truthy(url)

\* returned_image naming the record after the cleaned name
returned_image_cleaned_name ==
    IF ~Truthy(image_url)
    THEN ProductImage(cleaned_name, Str(generate_smart_placeholder(product_name)),
                      s_smart_placeholder, <<"I", "m", "a", "g", "e", " ", "o", "f", " ">> \o cleaned_name)
    ELSE ProductImage(cleaned_name, image_url, source, <<"I", "m", "a", "g", "e", " ", "o", "f", " ">> \o cleaned_name)

\* returned_image with the placeholder generated from the cleaned name
returned_image_placeholder_of_cleaned ==
    IF ~Truthy(image_url)
    THEN ProductImage(product_name, Str(generate_smart_placeholder(cleaned_name)),
                      s_smart_placeholder, <<"I", "m", "a", "g", "e", " ", "o", "f", " ">> \o product_name)
    ELSE ProductImage(product_name, image_url, source, <<"I", "m", "a", "g", "e", " ", "o", "f", " ">> \o product_name)

\* the ProductImage fetch_product_image returns
returned_image ==
    IF use_placeholder(image_url)
    THEN ProductImage(product_name, Str(generate_smart_placeholder(product_name)),
                      s_smart_placeholder, <<"I", "m", "a", "g", "e", " ", "o", "f", " ">> \o product_name)
    ELSE ProductImage(product_name, image_url, source, <<"I", "m", "a", "g", "e", " ", "o", "f", " ">> \o product_name)

\* the end of fetch_product_image and results.append(product_image)
return_image ==
    /\ pc = "found_or_not"
    /\ results' = Append(results, returned_image)
    /\ generated' = IF use_placeholder(image_url) THEN generated + 1 ELSE generated
    /\ pc' = "appended"
    /\ NoLocals(product_name', cleaned_name', image_url', source', method')
    /\ UNCHANGED <<product_names, i, invoked, seen, accepted, queried, slept>>

\* the ProductImage of the except branch of fetch_all_images
error_image(name) ==
    ProductImage(name, Str(generate_smart_placeholder(name)), s_error_placeholder,
                 <<"P", "l", "a", "c", "e", "h", "o", "l", "d", "e", "r", " ", "f", "o", "r", " ">> \o name)

\* except Exception as e: results.append(ProductImage(... "error_placeholder" ...))
handle_error ==
    /\ results' = Append(results, error_image(product_names[i]))
    /\ i' = i + 1
    /\ pc' = "loop"
    /\ EndCall
    /\ UNCHANGED product_names

\* if i < total:
delay_due == i < total

\* an exception leaves fetch_product_image: one raised outside the try of its
\* for loop (before the loop, or between the loop and the return)
fetch_product_image_raises ==
    /\ pc \in {"loop", "found_or_not"}
    /\ i <= total
    /\ handle_error
    /\ slept' = FALSE

\* delay = random.uniform(*self.delay_range); time.sleep(delay)
sleep ==
    /\ pc = "appended"
    /\ delay_due
    /\ i' = i + 1
    /\ pc' = "loop"
    /\ EndCall
    /\ slept' = TRUE
    /\ UNCHANGED <<product_names, results>>

\* random.uniform / time.sleep raises (time.sleep of a negative delay is a
\* ValueError): the except branch runs after the product's record was appended
sleep_raises ==
    /\ pc = "appended"
    /\ delay_due
    /\ handle_error
    /\ slept' = TRUE

\* no delay after the last product
next_product ==
    /\ pc = "appended"
    /\ ~delay_due
    /\ i' = i + 1
    /\ pc' = "loop"
    /\ EndCall
    /\ UNCHANGED <<product_names, results, slept>>

\* return results
return_results ==
    /\ pc = "loop"
    /\ i > total
    /\ pc' = "done"
    /\ UNCHANGED <<product_names, results, i, locals, history, slept>>

Next ==
    \/ enter_fetch_product_image
    \/ \E o \in Outcomes : try_method(o)
    \/ return_image
    \/ fetch_product_image_raises
    \/ sleep
    \/ sleep_raises
    \/ next_product
    \/ return_results

Spec == Init /\ [][Next]_vars

(* ------------------------------ the two pure functions on their own ---- *)
\* one name, handed to clean_product_name (and its output handed to it
\* again) or to generate_smart_placeholder
InitNames ==
    /\ product_names \in {<<n>> : n \in name_inputs}
    /\ results = <<>>
    /\ i = 1
    /\ pc = "name"
    /\ NoCall
    /\ slept = FALSE

\* cleaned_name = self.clean_product_name(product_name)
normalize ==
    /\ pc = "name"
    /\ product_name' = product_names[1]
    /\ cleaned_name' = clean_product_name(product_names[1])
    /\ pc' = "normalized"
    /\ UNCHANGED <<product_names, results, i, image_url, source, method, history, slept>>

\* self.clean_product_name(cleaned_name)
renormalize ==
    /\ pc = "normalized"
    /\ product_name' = cleaned_name
    /\ cleaned_name' = clean_product_name(cleaned_name)
    /\ pc' = "renormalized"
    /\ UNCHANGED <<product_names, results, i, image_url, source, method, history, slept>>

\* image_url = self.generate_smart_placeholder(product_name)
placeholder ==
    /\ pc = "name"
    /\ product_name' = product_names[1]
    /\ image_url' = Str(generate_smart_placeholder(product_names[1]))
    /\ generated' = generated + 1
    /\ pc' = "generated"
    /\ UNCHANGED <<product_names, results, i, cleaned_name, source, method,
                   invoked, seen, accepted, queried, slept>>

NextNames == normalize \/ renormalize \/ placeholder

SpecNames == InitNames /\ [][NextNames]_vars

(* ====================================================================== *)
(* Properties                                                             *)
(* ====================================================================== *)
\* the source identifiers of the four strategies, in priority order
strategy_ids == <<
    <<"d", "u", "c", "k", "d", "u", "c", "k", "g", "o">>,
    <<"b", "i", "n", "g", "_", "i", "m", "a", "g", "e", "s">>,
    <<"s", "h", "o", "p", "p", "i", "n", "g", "_", "s", "i", "t", "e", "s">>,
    <<"d", "i", "r", "e", "c", "t", "_", "s", "e", "a", "r", "c", "h">> >>
image_of == <<"I", "m", "a", "g", "e", " ", "o", "f", " ">>
placeholder_for == <<"P", "l", "a", "c", "e", "h", "o", "l", "d", "e", "r", " ", "f", "o", "r", " ">>

LastRecord == results[Len(results)]
\* the name fetch_all_images was given for the current product, and the name
\* it hands to fetch_product_image
raw_name == product_names[i]
given_name == strip(product_names[i])
\* fetch_product_image has just returned LastRecord for product i
Fetched == pc = "appended"
AllFourTried == invoked = <<1, 2, 3, 4>>

\* C1: fetch_all_images returns exactly one record per input name, in input
\* order, whatever the strategies, the validator, fetch_product_image and the
\* delay step do.
C1_ExactlyOneRecordPerName ==
    /\ Len(results) <= total
    /\ \A n \in DOMAIN results :
          n <= total /\ results[n].name \in {product_names[n], strip(product_names[n])}
    /\ pc = "done" => Len(results) = total

\* C2: when each of the four strategies returned None or a URL the validator
\* rejected, the record has source smart_placeholder and the generator's URL.
C2_NoAcceptedCandidateGivesSmartPlaceholder ==
    (Fetched /\ AllFourTried /\ seen \subseteq {"none", "rejected"}) =>
        /\ LastRecord.source = s_smart_placeholder
        /\ LastRecord.image_url = Str(generate_smart_placeholder(given_name))

\* C3: every record's source is the identifier of one of the four strategies,
\* with that strategy's candidate as image_url, or smart_placeholder or
\* error_placeholder, with the generator's URL as image_url.
C3_SourceIdentifiesProducer ==
    \A n \in DOMAIN results :
        \/ \E k \in DOMAIN strategy_ids :
              /\ results[n].source = strategy_ids[k]
              /\ results[n].image_url = Str(Candidate(k, clean_product_name(results[n].name)))
        \/ /\ results[n].source \in {s_smart_placeholder, s_error_placeholder}
           /\ results[n].image_url = Str(generate_smart_placeholder(results[n].name))

\* C4: the record fetch_product_image returns carries the identifier and the
\* candidate of the first strategy, in priority order, whose candidate the
\* validator accepted, whatever the earlier strategies did; the strategies
\* before it were all tried and the generator was not called.
C4_FirstAcceptedStrategyWins ==
    (Fetched /\ accepted # 0) =>
        /\ LastRecord.source = strategy_ids[accepted]
        /\ LastRecord.image_url = Str(Candidate(accepted, clean_product_name(given_name)))
        /\ invoked = [n \in 1..accepted |-> n]
        /\ generated = 0

\* strategy 1's candidate was rejected and strategy 2's accepted
C4_RejectedThenAccepted ==
    /\ Fetched
    /\ invoked = <<1, 2>>
    /\ seen = {"rejected", "accepted"}
    /\ LastRecord.source = strategy_ids[2]

\* C5 as claimed: after a strategy raised, the product's record has source
\* error_placeholder and the generator's URL.
C5_StrategyFaultGivesErrorPlaceholder ==
    (Fetched /\ "raised" \in seen) =>
        /\ LastRecord.source = s_error_placeholder
        /\ LastRecord.image_url = Str(generate_smart_placeholder(raw_name))

\* C5: a fault raised by a strategy is caught inside fetch_product_image: the
\* remaining strategies are still tried in order, the record fetch_product_image
\* returns is not an error_placeholder record, and the batch goes on.
C5_StrategyFaultIsAbsorbed ==
    /\ ("raised" \in seen /\ pc = "search") => method = Len(invoked) + 1
    /\ (Fetched /\ "raised" \in seen) =>
          /\ LastRecord.source # s_error_placeholder
          /\ accepted = 0 => AllFourTried
    /\ "raised" \in seen => (pc \in {"search", "found_or_not", "appended"} /\ i <= total)

\* strategy 1 raised and a later strategy's candidate was accepted
C5_RaisedThenResolved ==
    /\ Fetched
    /\ seen = {"raised", "accepted"}
    /\ accepted = 2
    /\ LastRecord.source = strategy_ids[2]

\* C6 as claimed: every record has the raw input name as name and
\* "Image of " + that name as alt_text.
C6_NameAndAltTextAreRawInput ==
    /\ Fetched => LastRecord.name = raw_name
    /\ \A n \in DOMAIN results :
          \E m \in DOMAIN product_names :
              /\ results[n].name = product_names[m]
              /\ results[n].alt_text = image_of \o product_names[m]

\* C6: a record fetch_product_image returns has the input name with the
\* surrounding whitespace stripped as name and "Image of " + that as alt_text;
\* an error_placeholder record has the input name as supplied as name and
\* "Placeholder for " + that name as alt_text.
C6_NameStrippedAltTextByPath ==
    /\ Fetched =>
          /\ LastRecord.name = given_name
          /\ LastRecord.alt_text = image_of \o given_name
          /\ LastRecord.source # s_error_placeholder
    /\ (pc \in {"loop", "done"} /\ i > 1 /\ LastRecord.source = s_error_placeholder) =>
          /\ LastRecord.name = product_names[i - 1]
          /\ LastRecord.alt_text = placeholder_for \o product_names[i - 1]
    /\ \A n \in DOMAIN results :
          results[n].source # s_error_placeholder =>
              results[n].alt_text = image_of \o results[n].name

\* a record was returned for a name given with surrounding blanks
C6_PaddedNameFetched ==
    /\ Fetched
    /\ raw_name # given_name
    /\ LastRecord.name = given_name

\* C7: image_url of every record is a non-empty string.
C7_ImageUrlNeverEmpty ==
    \A n \in DOMAIN results :
        results[n].image_url.kind = "str" /\ Len(results[n].image_url.s) > 0

\* every strategy returned the empty string
C7_AllStrategiesReturnedEmpty ==
    /\ Fetched
    /\ AllFourTried
    /\ seen = {"empty"}
    /\ LastRecord.source = s_smart_placeholder

\* C8: when every strategy returned None or raised, the record has source
\* smart_placeholder and the URL the generator gives for the name
\* fetch_product_image was given (not for the cleaned name).
C8_AllNotFoundGivesSmartPlaceholder ==
    (Fetched /\ AllFourTried /\ seen \subseteq {"none", "raised"}) =>
        /\ LastRecord.source = s_smart_placeholder
        /\ LastRecord.image_url = Str(generate_smart_placeholder(given_name))
        /\ generated = 1

\* strategies returned None and raised, for a name whose cleaned form has
\* another placeholder
C8_NotFoundAndCleanedDiffers ==
    /\ Fetched
    /\ AllFourTried
    /\ seen = {"none", "raised"}
    /\ LastRecord.source = s_smart_placeholder
    /\ generate_smart_placeholder(clean_product_name(given_name))
          # generate_smart_placeholder(given_name)

\* the colours in a placeholder URL
BgOf(url) == url.s[2]
TextOf(url) == url.s[4]
storage_word == <<"s", "t", "o", "r", "a", "g", "e">>
\* 'kitchen' and its keywords
kitchen_words == {<<"k", "i", "t", "c", "h", "e", "n">>, <<"m", "u", "g">>, <<"t", "e", "a">>, <<"c", "o", "f", "f", "e", "e">>,
                  <<"s", "u", "g", "a", "r">>, <<"d", "i", "s", "p", "e", "n", "s", "e", "r">>, <<"j", "a", "r">>, <<"c", "a", "k", "e">>, <<"t", "i", "n">>}
NamesStorage(name) == Contains(Lower(name), storage_word)
NamesKitchen(name) == \E w \in kitchen_words : Contains(Lower(name), w)

\* C9 as claimed: a name containing "storage" gets the storage colours.
C9_StorageNameGetsStorageColours ==
    (pc = "generated" /\ NamesStorage(product_name)) =>
        BgOf(image_url) = "3498DB" /\ TextOf(image_url) = "FFFFFF"

\* C9: a name containing "storage" gets the storage colours unless it also
\* contains "kitchen" or a kitchen keyword, and then it gets the kitchen colours.
C9_StorageUnlessKitchenWord ==
    (pc = "generated" /\ NamesStorage(product_name)) =>
        IF NamesKitchen(product_name)
        THEN BgOf(image_url) = "2C3E50" /\ TextOf(image_url) = "ECF0F1"
        ELSE BgOf(image_url) = "3498DB" /\ TextOf(image_url) = "FFFFFF"

\* "Storage Sign": storage, home and metal match, kitchen does not
C9_StorageSign ==
    /\ pc = "generated"
    /\ product_name = <<"S", "t", "o", "r", "a", "g", "e", " ", "S", "i", "g", "n">>
    /\ BgOf(image_url) = "3498DB"

\* no leading quantity/size pattern and no trailing descriptor word matches
NothingToStrip(name) == PrefixWordLen(name) = 0 /\ SuffixMatches(name) = {}

\* C10 as claimed: cleaning a cleaned name changes nothing, and a name no
\* pattern matches is returned as given.
C10_RenormalizingIsNoOp ==
    /\ pc = "renormalized" => cleaned_name = product_name
    /\ (pc = "normalized" /\ NothingToStrip(product_name)) => cleaned_name = product_name

\* C10: cleaning a cleaned name changes nothing when no pattern matches the
\* cleaned name, and a name no pattern matches is returned with its
\* surrounding whitespace stripped.
C10_NoOpWhenNothingLeftToStrip ==
    /\ (pc = "renormalized" /\ NothingToStrip(product_name)) => cleaned_name = product_name
    /\ (pc = "normalized" /\ NothingToStrip(product_name)) =>
          cleaned_name = strip(product_name)

\* "Tin Holder" cleaned to "Tin", and "Tin" cleaned again
C10_TinHolder ==
    /\ pc = "renormalized"
    /\ product_names[1] = <<"T", "i", "n", " ", "H", "o", "l", "d", "e", "r">>
    /\ product_name = <<"T", "i", "n">>
    /\ cleaned_name = <<"T", "i", "n">>

\* C11: within one product's resolution the strategies are called in the
\* order 1, 2, 3, 4, each at most once and each with the cleaned name;
\* strategy n + 1 is called only after strategy n was called without an
\* accepted candidate, and none is called once a candidate was accepted.
C11_StrategiesInOrderOnce ==
    /\ Len(invoked) <= Len(strategy_ids)
    /\ invoked = [n \in 1..Len(invoked) |-> n]
    /\ queried = [n \in 1..Len(invoked) |-> clean_product_name(given_name)]
    /\ accepted # 0 => (Len(invoked) = accepted /\ pc # "search")
    /\ pc = "search" => (method = Len(invoked) + 1 /\ accepted = 0)

\* strategy 1 returned None, strategy 2 a rejected candidate, strategy 3 an
\* accepted one, for a name the normalizer changes
C11_ThirdStrategyAccepted ==
    /\ Fetched
    /\ invoked = <<1, 2, 3>>
    /\ seen = {"none", "rejected", "accepted"}
    /\ accepted = 3
    /\ queried[3] # given_name

\* C12: products are resolved one at a time in input order; a delay step
\* runs between the end of every product's resolution and the start of the
\* next one, however the earlier resolution ended, and none runs after the
\* last product.
C12_DelayBetweenProducts ==
    /\ pc \in {"search", "found_or_not"} =>
          (product_name = given_name /\ Len(results) >= i - 1)
    /\ (pc = "loop" /\ 1 < i /\ i <= total) => slept
    /\ (pc \in {"loop", "done"} /\ i > total) => ~slept

====
